---- MODULE Spec2Model ----
(***************************************************************************)
(* Verification model of the dataflow market-data ingestion service.       *)
(*                                                                         *)
(*   SpecGate  RuntimeControl (utils/loop_control.py): the decorator that  *)
(*             bounds a routine by a wall-clock window and a job quota,    *)
(*             inline or with the routine on a worker thread.              *)
(*   SpecHist  OnyxHistoricalExtractor.start_extract under its module      *)
(*             level RuntimeControl (extractors/historical/onyx.py).       *)
(*   SpecAll   AllGate(RuntimeControl, JobCountControl) as built by        *)
(*             make_time_and_job_gate.                                     *)
(*   SpecComposite  the same composite over a RuntimeControl that was      *)
(*             built with or without a job quota.                          *)
(*   SpecOrch  ServiceOrchestrator / ServiceGroup (services/orchestrator), *)
(*             called directly or used as a context manager.               *)
(*   SpecRoute OutputRouter.route over the sink managers                   *)
(*             (outputs/router.py).                                        *)
(*   SpecWeb   parse_web_response and the way extractors consume its       *)
(*             result (utils/common.py).                                   *)
(*   SpecExt   DatabentoRealtimeExtractor, OnyxRealtimeExtractor and       *)
(*             BBGHistoricalExtractor, each with its module level gate.    *)
(*   SpecSingle the OutputRouter singleton, built when outputs/router.py   *)
(*             is imported and asked for again by extractor threads.       *)
(*   SpecRange the request range of a historical run: the defaults of      *)
(*             services/historical_service.py and of the Onyx and BBG      *)
(*             historical extractors.                                      *)
(*   SpecMsg   DatabentoRealtimeExtractor.on_message over the records the  *)
(*             live client delivers.                                       *)
(*   SpecSink  the sink managers behind the router: DatabaseManager.save,  *)
(*             RedisManager.save and RedisWrapper.save_data.               *)
(*   SpecEnv   set_env_vars (utils/common.py) over the process             *)
(*             environment.                                                *)
(*                                                                         *)
(* Time is an integer number of poll intervals.  time.sleep(d) suspends    *)
(* the caller until the clock has advanced by at least d.                  *)
(***************************************************************************)
EXTENDS Integers, Sequences, FiniteSets, TLC

\* ---------------------------------------------------------------- bounds
MaxTime == 3
MaxJob == 2
MaxDone == 6
MaxCount == 2
MaxInvocations == 2
MaxSeries == 3
MaxRecords == 1
MaxConfigs == 2
MaxOrphans == 1
MaxDest == 3
MaxBody == 3
MaxThreads == 3
MaxDate == 3
MaxOwned == 2
MaxSym == 2
MaxIid == 2
MaxValue == 2
MaxArgs == 2

\* ------------------------------------------------------ program constants
\* max_job: Optional[int] = None
None == -1
\* poll_seconds: float = 1.0
poll_seconds == 1

VARIABLES
    \* the wall clock read by RuntimeControl._now()
    now,
    \* RuntimeControl constructor arguments
    start, end, run_in_thread, new_thread,
    \* RuntimeControl mutable fields
    max_job, done, stop_event, thread,
    \* position of the controller inside RuntimeControl.__call__.wrapper
    pc, wake,
    \* observations of the current gated run: calls of func, the clock at
    \* the invocation of the wrapper, the last sleep_tick duration, whether
    \* the worker was joined
    invocations, call_now, last_sleep, joined,
    \* OnyxHistoricalExtractor: per series whether time_series.symbol is set,
    \* the loop position and total_done of start_extract, messages routed
    ts_symbol, idx, total_done, routed,
    \* ... the series requested in the current pass of start_extract and
    \* the number of failed fetches it has logged
    requested, h_errors,
    \* JobCountControl: the max_jobs argument, _max and _done; the position
    \* of a caller blocked inside an AllGate method
    jc_max_jobs, jc_max, jc_done, ag_pc, ag_wake,
    \* ... and the jobs reported to the composite through on_job_finished
    ag_notified,
    \* ServiceOrchestrator: whether a config_manager attribute exists, the
    \* configurations it loads, service_groups in insertion order,
    \* _initialized, _running, the last method called and how it ended
    \* and, when it raised out of start_services, the group that failed
    has_config_manager, configs, service_groups, o_initialized, o_running,
    o_op, o_result, o_failed,
    \* ... and the position of a with-block around the orchestrator
    o_scope,
    \* OutputRouter.route: time_series.destination, and for the last call
    \* the output types save() was called on, the number of "Log only"
    \* entries, the destination whose save() raised and how route ended
    destination, saves, r_logged, r_failed, r_result,
    \* parse_web_response: the response's status_code and body (a sequence
    \* of JSON tokens), the tuple returned, what the caller did with it
    resp_status, resp_body, parsed, consumed,
    \* an extractor instance: its class, per series the data set and
    \* whether the vendor knows it, whether time_series.symbol is set, the
    \* position of the instance and of its series loop, the series that
    \* were subscribed or polled, that had a message handed to the router,
    \* that had an error logged
    extractor, e_series, e_symbol, e_pc, e_idx, e_subscribed, e_routed,
    e_log,
    \* the class OutputRouter: _instance (0 for None, else the number of
    \* the instance), _initialized, per instance created whether it has
    \* its outputs table, the number of sink manager sets created; the
    \* thread importing outputs/router.py (0 for none) and whether the
    \* import has completed; per thread its position and the router it holds
    cls_instance, cls_initialized, instances, sink_sets, m_importer,
    m_imported, t_pc, t_self,
    \* the request range of a historical run: the code that computes it,
    \* the configured start and end of the range (None when absent), the
    \* current day, the start and end that will be requested and whether
    \* they have been computed
    range_site, cfg_start, cfg_end, today, req_start, req_end, range_pc,
    \* DatabentoRealtimeExtractor: per series its raw symbol (0 for None),
    \* instrument_id_to_raw_sym (0 for an id that is no key); the last
    \* record given to on_message, the series it was routed for, whether
    \* an error was logged for it, whether an exception left on_message
    m_symbol, cache, m_last, m_routed, m_logged, m_escaped,
    \* the sinks of one series: time_series.destination, the redis ids
    \* with an active instance, additional_params["redis"], whether
    \* SCHEMA_MAP knows the data schema; the entry point last called, the
    \* writes each sink instance has received in that call, the redis
    \* commands issued in it and the exception it raised
    s_dest, s_active, s_store, s_schema_ok, s_call, s_writes, s_ops, s_error,
    \* os.environ (0 for a name that is not set), the argument of
    \* set_env_vars as its items in order, how the last call ended
    environ, argument, env_result

gateCfg == <<start, end, run_in_thread, new_thread>>
gateVars == <<gateCfg, max_job, done, stop_event, thread, pc, wake,
              invocations, call_now, last_sleep, joined>>
histVars == <<ts_symbol, idx, total_done, routed, requested, h_errors>>

allVars == <<jc_max_jobs, jc_max, jc_done, ag_pc, ag_wake, ag_notified>>

orchVars == <<has_config_manager, configs, service_groups, o_initialized,
              o_running, o_op, o_result, o_failed, o_scope>>

routeVars == <<destination, saves, r_logged, r_failed, r_result>>

webVars == <<resp_status, resp_body, parsed, consumed>>

extVars == <<extractor, e_series, e_symbol, e_pc, e_idx, e_subscribed,
             e_routed, e_log>>

singleVars == <<cls_instance, cls_initialized, instances, sink_sets,
                m_importer, m_imported, t_pc, t_self>>

rangeVars == <<range_site, cfg_start, cfg_end, today, req_start, req_end,
               range_pc>>

msgVars == <<m_symbol, cache, m_last, m_routed, m_logged, m_escaped>>

sinkVars == <<s_dest, s_active, s_store, s_schema_ok, s_call, s_writes,
              s_ops, s_error>>

envVars == <<environ, argument, env_result>>

moreVars == <<singleVars, rangeVars, msgVars, sinkVars, envVars>>

\* the router, the response parser and the extractor instances
newVars == <<routeVars, webVars, extVars, moreVars>>

\* everything outside the gate
restG == <<histVars, allVars, orchVars, newVars>>

\* an extractor / a composite gate that is not part of the run
NoHist == ts_symbol = <<>> /\ idx = 0 /\ total_done = 0 /\ routed = 0
          /\ requested = {} /\ h_errors = 0
NoAll == jc_max_jobs = None /\ jc_max = None /\ jc_done = 0
         /\ ag_pc = "none" /\ ag_wake = 0 /\ ag_notified = 0
NoOrch == has_config_manager = FALSE /\ configs = <<>>
          /\ service_groups = <<>> /\ o_initialized = FALSE
          /\ o_running = FALSE /\ o_op = "none" /\ o_result = "none"
          /\ o_failed = 0 /\ o_scope = "none"
NoRoute == destination = <<>> /\ saves = <<>> /\ r_logged = 0
           /\ r_failed = 0 /\ r_result = "none"
NoWeb == resp_status = 0 /\ resp_body = <<>> /\ parsed = <<>>
         /\ consumed = "none"
NoExt == extractor = "none" /\ e_series = <<>> /\ e_symbol = <<>>
         /\ e_pc = "none" /\ e_idx = 0 /\ e_subscribed = {}
         /\ e_routed = {} /\ e_log = {}
NoSingle == cls_instance = 0 /\ cls_initialized = FALSE
            /\ instances = <<>> /\ sink_sets = 0 /\ m_importer = 0
            /\ m_imported = FALSE /\ t_pc = <<>> /\ t_self = <<>>
NoRange == range_site = "none" /\ cfg_start = None /\ cfg_end = None
           /\ today = 0 /\ req_start = None /\ req_end = None
           /\ range_pc = "none"
NoMsg == m_symbol = <<>> /\ cache = <<>> /\ m_last = <<>>
         /\ m_routed = <<>> /\ m_logged = FALSE /\ m_escaped = FALSE
NoSink == s_dest = <<>> /\ s_active = {} /\ s_store = "none"
          /\ s_schema_ok = FALSE /\ s_call = "none" /\ s_writes = <<>>
          /\ s_ops = <<>> /\ s_error = "none"
NoEnv == environ = <<>> /\ argument = <<>> /\ env_result = "none"
NoMore == NoSingle /\ NoRange /\ NoMsg /\ NoSink /\ NoEnv
NoNew == NoRoute /\ NoWeb /\ NoExt /\ NoMore

Min(a, b) == IF a < b THEN a ELSE b
Max(a, b) == IF a > b THEN a ELSE b

Time == 0..MaxTime

\* ------------------------------------------------------- RuntimeControl

\* RuntimeControl.should_continue, on explicit arguments
should_continue_at(n, e, mj, d) ==
    IF mj # None THEN n < e \/ d < mj ELSE n < e

should_continue == should_continue_at(now, end, max_job, done)

wait_skip(n, s) == 0

\* RuntimeControl.wait_until_start: the sleep duration (0 when now >= start)
wait_duration(n, s) == IF n >= s THEN 0 ELSE s - n

\* RuntimeControl.sleep_tick: the duration slept, None when it returns early
sleep_duration(n, e, mj, d) ==
    IF ~should_continue_at(n, e, mj, d) THEN None
    ELSE Min(poll_seconds, Max(0, e - n))

\* the clock advances; every blocked sleeper sees it
Tick ==
    /\ now < MaxTime
    /\ now' = now + 1
    /\ UNCHANGED <<gateVars, restG>>

\* RuntimeControl.set_max_job
set_max_job(m) ==
    /\ max_job' = m
    /\ UNCHANGED <<gateCfg, now, done, stop_event, thread, pc, wake, invocations, call_now, last_sleep, joined>>
    /\ UNCHANGED restG

\* RuntimeControl.add_job_done
add_job_done(c) ==
    /\ done + c <= MaxDone
    /\ done' = done + c
    /\ UNCHANGED <<gateCfg, now, max_job, stop_event, thread, pc, wake, invocations, call_now, last_sleep, joined>>
    /\ UNCHANGED restG

\* wrapper, lines 89-93: the skip test and wait_until_start
Call ==
    /\ pc \in {"idle", "returned"}
    /\ call_now' = now
    /\ invocations' = 0
    /\ last_sleep' = None
    /\ joined' = FALSE
    /\ IF ~should_continue
       THEN /\ pc' = "returned"
            /\ wake' = wake
       ELSE IF wait_duration(now, start) = 0
            THEN /\ pc' = "started"
                 /\ wake' = wake
            ELSE /\ pc' = "wait_start"
                 /\ wake' = now + wait_duration(now, start)
    /\ UNCHANGED <<gateCfg, now, max_job, done, stop_event, thread>>
    /\ UNCHANGED restG

\* time.sleep in wait_until_start returns
WakeStart ==
    /\ pc = "wait_start"
    /\ now >= wake
    /\ pc' = "started"
    /\ UNCHANGED <<gateCfg, now, max_job, done, stop_event, thread, wake, invocations, call_now, last_sleep, joined>>
    /\ UNCHANGED restG

\* wrapper, lines 95-106: run_in_thread with new_thread, the worker starts
StartThread ==
    /\ pc = "started"
    /\ run_in_thread /\ new_thread
    /\ stop_event' = "clear"
    /\ thread' = "alive"
    /\ invocations' = invocations + 1
    /\ pc' = "poll"
    /\ UNCHANGED <<gateCfg, now, max_job, done, wake, call_now, last_sleep, joined>>
    /\ UNCHANGED restG

\* wrapper, lines 107-108: run_in_thread without new_thread, func is called
\* on the controller and is assumed to start its own daemon thread
CallFuncDirect ==
    /\ pc = "started"
    /\ run_in_thread /\ ~new_thread
    /\ invocations' = invocations + 1
    /\ pc' = "in_func"
    /\ UNCHANGED <<gateCfg, now, max_job, done, stop_event, thread, wake, call_now, last_sleep, joined>>
    /\ UNCHANGED restG

\* func returns on the controller (its result is discarded, line 108)
FuncReturn ==
    /\ pc = "in_func"
    /\ pc' = "poll"
    /\ UNCHANGED <<gateCfg, now, max_job, done, stop_event, thread, wake, invocations, call_now, last_sleep, joined>>
    /\ UNCHANGED restG

\* wrapper, lines 110-113: the supervising loop and stop_event.set()
Poll ==
    /\ pc = "poll"
    /\ IF should_continue
       THEN \* on_idle -> sleep_tick
            /\ last_sleep' = sleep_duration(now, end, max_job, done)
            /\ wake' = now + Max(0, sleep_duration(now, end, max_job, done))
            /\ pc' = "poll_sleep"
            /\ stop_event' = stop_event
       ELSE /\ stop_event' = "set"
            /\ pc' = "returned"
            /\ UNCHANGED <<wake, last_sleep>>
    /\ UNCHANGED <<gateCfg, now, max_job, done, thread, invocations, call_now, joined>>
    /\ UNCHANGED restG

\* time.sleep in sleep_tick returns to the supervising loop
WakePoll ==
    /\ pc = "poll_sleep"
    /\ now >= wake
    /\ pc' = "poll"
    /\ UNCHANGED <<gateCfg, now, max_job, done, stop_event, thread, wake, invocations, call_now, last_sleep, joined>>
    /\ UNCHANGED restG

\* the worker's target returns (by itself or after seeing stop_event)
WorkerExit ==
    /\ thread = "alive"
    /\ thread' = "dead"
    /\ UNCHANGED <<gateCfg, now, max_job, done, stop_event, pc, wake, invocations, call_now, last_sleep, joined>>
    /\ UNCHANGED restG

\* wrapper, lines 115-116: the inline loop test and the call of func
InvokeWorkBody ==
    /\ pc \in {"started", "loop"}
    /\ ~run_in_thread
    /\ IF should_continue
       THEN /\ invocations < MaxInvocations
            /\ invocations' = invocations + 1
            /\ pc' = "in_work"
       ELSE /\ pc' = "returned"
            /\ UNCHANGED invocations
    /\ UNCHANGED <<gateCfg, now, max_job, done, stop_event, thread, wake, call_now, last_sleep, joined>>

InvokeWork == InvokeWorkBody /\ UNCHANGED restG

\* wrapper, lines 116-120: func returned job_done; add_job_done; on_idle
AfterWorkBody(job_done) ==
    /\ pc = "in_work"
    /\ done + job_done <= MaxDone
    /\ done' = IF job_done # 0 THEN done + job_done ELSE done
    /\ last_sleep' = sleep_duration(now, end, max_job, done')
    /\ wake' = now + Max(0, sleep_duration(now, end, max_job, done'))
    /\ pc' = IF sleep_duration(now, end, max_job, done') = None
             THEN "loop" ELSE "loop_sleep"
    /\ UNCHANGED <<gateCfg, now, max_job, stop_event, thread, invocations, call_now, joined>>

AfterWork(job_done) == AfterWorkBody(job_done) /\ UNCHANGED restG

\* time.sleep in sleep_tick returns to the inline loop
WakeLoop ==
    /\ pc = "loop_sleep"
    /\ now >= wake
    /\ pc' = "loop"
    /\ UNCHANGED <<gateCfg, now, max_job, done, stop_event, thread, wake, invocations, call_now, last_sleep, joined>>
    /\ UNCHANGED restG

\* wrapper, line 116: func raises instead of returning
func_raises ==
    /\ pc = "in_work"
    /\ pc' = "raising"
    /\ UNCHANGED <<gateCfg, now, max_job, done, stop_event, thread, wake, invocations, call_now, last_sleep, joined>>
    /\ UNCHANGED restG

after_exception_swallowed == "loop"

\* wrapper, lines 114-121: the inline loop has no try/except, so an
\* exception of func leaves the loop and the wrapper
after_exception == "raised"

\* the exception of func reaches the caller of the gated routine
wrapper_unwinds ==
    /\ pc = "raising"
    /\ pc' = after_exception
    /\ UNCHANGED <<gateCfg, now, max_job, done, stop_event, thread, wake, invocations, call_now, last_sleep, joined>>
    /\ UNCHANGED restG

vars == <<now, gateVars, histVars, allVars, orchVars, newVars>>

\* RuntimeControl.__init__ with every choice of window, mode and quota
InitGate ==
    /\ now = 0
    /\ start \in Time
    /\ end \in Time
    /\ max_job \in {None} \cup 0..MaxJob
    /\ done = 0
    /\ run_in_thread \in BOOLEAN
    /\ new_thread \in BOOLEAN
    \* new_thread is only read under run_in_thread (line 95)
    /\ (new_thread => run_in_thread)
    /\ stop_event = IF run_in_thread THEN "clear" ELSE "none"
    /\ thread = "none"
    /\ pc = "idle"
    /\ wake = 0
    /\ invocations = 0
    /\ call_now = None
    /\ last_sleep = None
    /\ joined = FALSE
    /\ NoHist
    /\ NoAll
    /\ NoOrch
    /\ NoNew

NextGate ==
    \/ Tick
    \/ \E m \in 0..MaxJob : set_max_job(m)
    \/ \E c \in 1..MaxCount : add_job_done(c)
    \/ Call
    \/ WakeStart
    \/ StartThread
    \/ CallFuncDirect
    \/ FuncReturn
    \/ Poll
    \/ WakePoll
    \/ WorkerExit
    \/ \E c \in 0..MaxCount : AfterWork(c)
    \/ InvokeWork
    \/ WakeLoop
    \/ func_raises
    \/ wrapper_unwinds

SpecGate == InitGate /\ [][NextGate]_vars

\* ------------------------------------------- OnyxHistoricalExtractor

\* start_extract is entered from the inline loop (lines 54-59)
start_extract_enter ==
    /\ InvokeWorkBody
    /\ idx' = IF pc' = "in_work" THEN 1 ELSE 0
    /\ total_done' = 0
    /\ requested' = IF pc' = "in_work" THEN {} ELSE requested
    /\ h_errors' = IF pc' = "in_work" THEN 0 ELSE h_errors
    /\ UNCHANGED <<ts_symbol, routed, allVars, orchVars, newVars>>

next_series_abort(i, n, outcome) ==
    IF outcome \in {"raise", "error"} THEN n + 1 ELSE i + 1

\* start_extract, lines 73-89: the try/except sits inside the for loop, so
\* after series i of n the loop goes on with series i + 1 whatever the
\* outcome of the fetch was
next_series(i, n, outcome) == i + 1

\* start_extract, lines 73-89: one series of the loop.  A series without a
\* symbol is logged and skipped (lines 76-78).  Otherwise outcome is what
\* the fetch gives: "raise" (requests.get raises), "error"
\* (parse_web_response returns an error) or "data" with k records passed
\* through on_message (lines 92-105: route, add_job_done(), return 1)
start_extract_series(outcome, k) ==
    /\ pc = "in_work"
    /\ idx \in 1..Len(ts_symbol)
    /\ IF ts_symbol[idx]
       THEN /\ idx' = next_series(idx, Len(ts_symbol), outcome)
            /\ requested' = requested \cup {idx}
            /\ h_errors' = IF outcome \in {"raise", "error"}
                           THEN h_errors + 1 ELSE h_errors
       ELSE /\ idx' = idx + 1
            /\ UNCHANGED <<requested, h_errors>>
    /\ IF ts_symbol[idx] /\ outcome = "data"
       THEN /\ done + k <= MaxDone
            /\ routed' = routed + k
            /\ done' = done + k
            /\ total_done' = total_done + k
       ELSE UNCHANGED <<routed, done, total_done>>
    /\ UNCHANGED <<now, gateCfg, max_job, stop_event, thread, pc, wake,
                   invocations, call_now, last_sleep, joined, ts_symbol>>
    /\ UNCHANGED <<allVars, orchVars, newVars>>

\* start_extract returns total_done to the wrapper (line 90)
start_extract_return ==
    /\ idx = Len(ts_symbol) + 1
    /\ AfterWorkBody(total_done)
    /\ idx' = 0
    /\ UNCHANGED <<ts_symbol, total_done, routed, requested, h_errors,
                   allVars, orchVars, newVars>>

\* the module level gate (lines 21-23) after OnyxHistoricalExtractor.__init__
\* has run set_max_job(len(self.time_series)) (line 32)
InitHist ==
    /\ now = 0
    /\ start \in Time
    /\ end \in Time
    /\ run_in_thread = FALSE
    /\ new_thread = FALSE
    /\ \E n \in 0..MaxSeries : ts_symbol \in [1..n -> BOOLEAN]
    /\ max_job = Len(ts_symbol)
    /\ done = 0
    /\ stop_event = "none"
    /\ thread = "none"
    /\ pc = "idle"
    /\ wake = 0
    /\ invocations = 0
    /\ call_now = None
    /\ last_sleep = None
    /\ joined = FALSE
    /\ idx = 0
    /\ total_done = 0
    /\ routed = 0
    /\ requested = {}
    /\ h_errors = 0
    /\ NoAll
    /\ NoOrch
    /\ NoNew

NextHist ==
    \/ Tick
    \/ Call
    \/ WakeStart
    \/ start_extract_enter
    \/ \E o \in {"raise", "error", "data"}, k \in 0..MaxRecords :
          start_extract_series(o, k)
    \/ start_extract_return
    \/ WakeLoop

SpecHist == InitHist /\ [][NextHist]_vars

\* ------------------------------------- JobCountControl, AllGate, AnyGate

\* the children make_time_and_job_gate passes to AllGate (lines 265-268)
time_and_job_gates == <<"RuntimeControl", "JobCountControl">>

\* JobCountControl.__init__: _max from the max_jobs argument (line 176)
JobCount_max(max_jobs) ==
    IF max_jobs # None /\ max_jobs > 0 THEN max_jobs ELSE None

\* JobCountControl.should_continue
JobCount_should_continue ==
    IF jc_max = None THEN TRUE ELSE jc_done < jc_max

\* g.should_continue() for a child g
child_should_continue(g) ==
    IF g = "RuntimeControl" THEN should_continue ELSE JobCount_should_continue

RECURSIVE AnyGate_should_continue(_)
\* AnyGate.should_continue: any(g.should_continue() for g in self._gates)
AnyGate_should_continue(gates) ==
    IF gates = <<>> THEN FALSE
    ELSE child_should_continue(Head(gates))
            \/ AnyGate_should_continue(Tail(gates))

AllGate_any(gates) == AnyGate_should_continue(gates)

RECURSIVE AllGate_should_continue(_)
\* AllGate.should_continue: all(g.should_continue() for g in self._gates)
AllGate_should_continue(gates) ==
    IF gates = <<>> THEN TRUE
    ELSE child_should_continue(Head(gates))
            /\ AllGate_should_continue(Tail(gates))

\* AllGate.on_job_finished (AnyGate.on_job_finished is the same loop):
\* RuntimeControl inherits the BaseGate no-op (lines 44-48),
\* JobCountControl.on_job_finished counts (lines 186-192)
AllGate_on_job_finished(count) ==
    /\ ag_pc = "ready"
    /\ jc_done' = IF jc_max = None \/ count <= 0 THEN jc_done
                  ELSE jc_done + count
    /\ jc_done' <= MaxDone
    /\ ag_notified' = IF count > 0 THEN ag_notified + count ELSE ag_notified
    /\ ag_notified' <= MaxDone
    /\ UNCHANGED <<now, gateVars, histVars, orchVars, newVars, jc_max_jobs, jc_max, ag_pc,
                   ag_wake>>

\* AllGate.wait_until_start: RuntimeControl.wait_until_start sleeps,
\* JobCountControl inherits the BaseGate no-op
AllGate_wait_until_start ==
    /\ ag_pc = "new"
    /\ ag_wake' = now + wait_duration(now, start)
    /\ ag_pc' = "wait_start"
    /\ UNCHANGED <<now, gateVars, histVars, orchVars, newVars, jc_max_jobs, jc_max, jc_done,
                   ag_notified>>

\* AllGate.sleep_tick: RuntimeControl.sleep_tick (lines 149-154) ...
AllGate_sleep_tick ==
    /\ ag_pc = "ready"
    /\ ag_wake' = now + Max(0, sleep_duration(now, end, max_job, done))
    /\ ag_pc' = "tick_first"
    /\ UNCHANGED <<now, gateVars, histVars, orchVars, newVars, jc_max_jobs, jc_max, jc_done,
                   ag_notified>>

\* ... followed by JobCountControl.sleep_tick (lines 194-195)
AllGate_sleep_tick_second ==
    /\ ag_pc = "tick_first"
    /\ now >= ag_wake
    /\ ag_wake' = now + poll_seconds
    /\ ag_pc' = "tick_second"
    /\ UNCHANGED <<now, gateVars, histVars, orchVars, newVars, jc_max_jobs, jc_max, jc_done,
                   ag_notified>>

\* the blocked AllGate method returns
AllGate_return ==
    /\ ag_pc \in {"wait_start", "tick_second"}
    /\ now >= ag_wake
    /\ ag_pc' = "ready"
    /\ UNCHANGED <<now, gateVars, histVars, orchVars, newVars, jc_max_jobs, jc_max, jc_done,
                   ag_wake, ag_notified>>

\* make_time_and_job_gate(start, end, max_jobs)
InitAll ==
    /\ now = 0
    /\ start \in Time
    /\ end \in Time
    /\ run_in_thread = FALSE
    /\ new_thread = FALSE
    /\ max_job = None
    /\ done = 0
    /\ stop_event = "none"
    /\ thread = "none"
    /\ pc = "idle"
    /\ wake = 0
    /\ invocations = 0
    /\ call_now = None
    /\ last_sleep = None
    /\ joined = FALSE
    /\ NoHist
    /\ jc_max_jobs \in {None} \cup 0..MaxJob
    /\ jc_max = JobCount_max(jc_max_jobs)
    /\ jc_done = 0
    /\ ag_pc = "new"
    /\ ag_wake = 0
    /\ ag_notified = 0
    /\ NoOrch
    /\ NoNew

NextAll ==
    \/ Tick
    \/ AllGate_wait_until_start
    \/ \E c \in 0..MaxCount : AllGate_on_job_finished(c)
    \/ AllGate_sleep_tick
    \/ AllGate_sleep_tick_second
    \/ AllGate_return

SpecAll == InitAll /\ [][NextAll]_vars

\* AllGate(RuntimeControl(start, end, max_job=m), JobCountControl(max_jobs))
\* or the AnyGate of the two: a composite whose RuntimeControl may have been
\* given a job quota (lines 66-81, 207-210, 234-237)
InitComposite ==
    /\ now = 0
    /\ start \in Time
    /\ end \in Time
    /\ run_in_thread = FALSE
    /\ new_thread = FALSE
    /\ max_job \in {None} \cup 0..MaxJob
    /\ done = 0
    /\ stop_event = "none"
    /\ thread = "none"
    /\ pc = "idle"
    /\ wake = 0
    /\ invocations = 0
    /\ call_now = None
    /\ last_sleep = None
    /\ joined = FALSE
    /\ NoHist
    /\ jc_max_jobs \in {None} \cup 0..MaxJob
    /\ jc_max = JobCount_max(jc_max_jobs)
    /\ jc_done = 0
    /\ ag_pc = "new"
    /\ ag_wake = 0
    /\ ag_notified = 0
    /\ NoOrch
    /\ NoNew

SpecComposite == InitComposite /\ [][NextAll]_vars

\* ------------------------------------- ServiceOrchestrator, ServiceGroup

\* strings are sequences of words, with "." a word of its own
ExtractorNames ==
    {<<"databento">>, <<"databento", ".", "trades">>, <<"historical">>}
DataSources == {"databento", "onyx"}
ConfigRecords ==
    [extractor : ExtractorNames, data_source : DataSources,
     enabled : BOOLEAN]

\* ExtractorFactory._extractor_registry of orchestrator.py
extractor_registry == {<<"databento">>}

RECURSIVE split_from(_, _, _)
split_from(str, i, cur) ==
    IF i > Len(str) THEN <<cur>>
    ELSE IF str[i] = "." THEN <<cur>> \o split_from(str, i + 1, <<>>)
    ELSE split_from(str, i + 1, Append(cur, str[i]))

\* str.split('.')
split(str) == split_from(str, 1, <<>>)

group_key_by_source(config) == <<config.extractor, <<config.data_source>>>>

\* initialize_services, lines 232-240: the group key of one configuration
group_key(config) ==
    LET extractor_parts == split(config.extractor)
    IN  IF Len(extractor_parts) >= 2
        THEN <<extractor_parts[1], extractor_parts[2]>>
        ELSE <<config.extractor, <<"default">>>>

RECURSIVE grouped_keys(_, _)
\* the keys of grouped_configs in insertion order (lines 228-241)
grouped_keys(cfgs, i) ==
    IF i = 0 THEN <<>>
    ELSE LET before == grouped_keys(cfgs, i - 1)
         IN  IF cfgs[i].enabled
                  /\ \A j \in 1..Len(before) : before[j] # group_key(cfgs[i])
             THEN Append(before, group_key(cfgs[i]))
             ELSE before

\* grouped_configs[key]: the positions of the enabled configurations of key
grouped_members(cfgs, key) ==
    {i \in 1..Len(cfgs) : cfgs[i].enabled /\ group_key(cfgs[i]) = key}

\* ServiceGroup.__init__ (lines 73-80) followed by a successful initialize().
\* thread is the state of the Thread in _thread, orphans the number of
\* earlier worker threads of the group that are still alive
new_group(cfgs, key) ==
    [key |-> key, members |-> grouped_members(cfgs, key),
     running |-> FALSE, thread |-> "none", orphans |-> 0]

\* line 121: _thread is bound to a new Thread; a worker that the old value
\* referred to and that is still alive goes on running without a reference
orphans_after_rebind(g) ==
    IF g.thread = "alive" THEN g.orphans + 1 ELSE g.orphans

first_failure_unchecked(keys, fail) ==
    IF fail \in 1..Len(keys) THEN fail ELSE 0

\* the first group whose initialize() raises: an extractor type missing
\* from the registry (line 34-35), or the group numbered fail whose
\* extractor or output allocator cannot be constructed; 0 when none does
first_failure(keys, fail) ==
    LET bad == {i \in 1..Len(keys) :
                   keys[i][1] \notin extractor_registry \/ i = fail}
    IN  IF bad = {} THEN 0
        ELSE CHOOSE i \in bad : \A j \in bad : i <= j

\* ServiceOrchestrator.initialize_services
initialize_services(fail) ==
    /\ ~o_initialized
    /\ o_op' = "initialize_services"
    /\ IF ~has_config_manager
       THEN \* self.config_manager raises AttributeError, logged and re-raised
            /\ o_result' = "raised"
            /\ UNCHANGED <<service_groups, o_initialized>>
       ELSE IF configs = <<>>
       THEN /\ o_result' = "ok"
            /\ UNCHANGED <<service_groups, o_initialized>>
       ELSE LET keys == grouped_keys(configs, Len(configs))
                f == first_failure(keys, fail)
                \* groups stored by an earlier failed attempt stay in the
                \* dict; the ones built again replace equal ones (line 255)
                n == IF f = 0 THEN Len(keys)
                     ELSE Max(f - 1, Len(service_groups))
            IN  /\ fail <= Len(keys)
                /\ service_groups' =
                      [i \in 1..n |-> new_group(configs, keys[i])]
                /\ o_initialized' = (f = 0)
                /\ o_result' = IF f = 0 THEN "ok" ELSE "raised"
    /\ o_failed' = 0
    /\ UNCHANGED <<now, gateVars, histVars, allVars, newVars, has_config_manager,
                   configs, o_running>>

\* ServiceGroup.start (lines 111-123) when Thread.start() succeeds
group_start(g) ==
    IF g.running THEN g
    ELSE [g EXCEPT !.running = TRUE, !.thread = "alive",
                   !.orphans = orphans_after_rebind(g)]

\* ServiceGroup.start when Thread.start() raises: _running is already set
group_start_raises(g) ==
    [g EXCEPT !.running = TRUE, !.thread = "none",
              !.orphans = orphans_after_rebind(g)]

started_groups_tolerant(groups, fail) ==
    [i \in 1..Len(groups) |->
        IF i = fail THEN group_start_raises(groups[i])
        ELSE group_start(groups[i])]

\* start_services, lines 275-277: the loop over service_groups, left at the
\* group numbered fail whose Thread.start() raises (0 when none does)
started_groups(groups, fail) ==
    [i \in 1..Len(groups) |->
        IF fail = 0 \/ i < fail THEN group_start(groups[i])
        ELSE IF i = fail THEN group_start_raises(groups[i])
        ELSE groups[i]]

\* ServiceOrchestrator.start_services
start_services(fail) ==
    /\ o_op' = "start_services"
    /\ IF ~o_initialized
       THEN /\ fail = 0
            /\ o_result' = "raised"
            /\ UNCHANGED <<service_groups, o_running>>
       ELSE IF o_running
       THEN /\ fail = 0
            /\ o_result' = "ok"
            /\ UNCHANGED <<service_groups, o_running>>
       ELSE /\ fail \in 0..Len(service_groups)
            /\ fail # 0 => ~service_groups[fail].running
            /\ service_groups' = started_groups(service_groups, fail)
            /\ \A g \in 1..Len(service_groups) :
                  service_groups'[g].orphans <= MaxOrphans
            \* on failure stop_services() runs with _running still False
            \* and returns at lines 289-290, then the exception is re-raised
            /\ o_running' = (fail = 0)
            /\ o_result' = IF fail = 0 THEN "ok" ELSE "raised"
    /\ o_failed' = fail
    /\ UNCHANGED <<now, gateVars, histVars, allVars, newVars, has_config_manager,
                   configs, o_initialized>>

\* ServiceGroup.stop (lines 125-140); hung tells whether join(timeout=10)
\* times out on a live thread
group_stop(g, hung) ==
    IF ~g.running THEN g
    ELSE [g EXCEPT !.running = FALSE,
                   !.thread = IF g.thread = "alive" /\ ~hung
                              THEN "dead" ELSE g.thread]

\* ServiceOrchestrator.stop_services; hung is the set of groups whose join
\* times out
stop_services(hung) ==
    /\ o_op' = "stop_services"
    /\ o_result' = "ok"
    /\ IF ~o_running
       THEN /\ hung = {}
            /\ UNCHANGED <<service_groups, o_running>>
       ELSE /\ service_groups' =
                  [i \in 1..Len(service_groups) |->
                      group_stop(service_groups[i], i \in hung)]
            /\ o_running' = FALSE
    /\ o_failed' = 0
    /\ UNCHANGED <<now, gateVars, histVars, allVars, newVars, has_config_manager,
                   configs, o_initialized>>

\* ServiceGroup._run returns (lines 142-178) and the group's thread ends
group_thread_exit(i) ==
    /\ service_groups[i].thread = "alive"
    /\ service_groups' = [service_groups EXCEPT ![i].thread = "dead"]
    /\ UNCHANGED <<now, gateVars, histVars, allVars, newVars, has_config_manager,
                   configs, o_initialized, o_running, o_op, o_result,
                   o_failed, o_scope>>

\* a worker thread that stop() gave up waiting for returns from _run
orphan_thread_exit(i) ==
    /\ service_groups[i].orphans > 0
    /\ service_groups' = [service_groups EXCEPT ![i].orphans = @ - 1]
    /\ UNCHANGED <<now, gateVars, histVars, allVars, newVars, has_config_manager,
                   configs, o_initialized, o_running, o_op, o_result,
                   o_failed, o_scope>>

\* a method of the orchestrator called by its owner, outside a with-block
\* or from the body of one
called_directly ==
    /\ o_scope \in {"none", "body"}
    /\ UNCHANGED o_scope

\* ServiceOrchestrator.__enter__, line 393.  An exception leaves
\* __enter__ and the with statement; __exit__ is not called for it
enter_initialize_services(fail) ==
    /\ o_scope = "none"
    /\ o_op = "none"
    /\ initialize_services(fail)
    /\ o_scope' = IF o_result' = "ok" THEN "entering" ELSE "left"

\* ServiceOrchestrator.__enter__, lines 394-395
enter_start_services(fail) ==
    /\ o_scope = "entering"
    /\ start_services(fail)
    /\ o_scope' = IF o_result' = "ok" THEN "body" ELSE "left"

\* ServiceOrchestrator.__exit__ (lines 397-399), called when the body of
\* the with-block returns and when it raises
exit_stop_services(hung) ==
    /\ o_scope = "body"
    /\ stop_services(hung)
    /\ o_scope' = "left"

\* ServiceOrchestrator.__init__ (lines 211-216).  __init__ assigns no
\* config_manager; an instance has one only when its creator attaches it
InitOrch ==
    /\ now = 0
    /\ start = 0
    /\ end = 0
    /\ run_in_thread = FALSE
    /\ new_thread = FALSE
    /\ max_job = None
    /\ done = 0
    /\ stop_event = "none"
    /\ thread = "none"
    /\ pc = "idle"
    /\ wake = 0
    /\ invocations = 0
    /\ call_now = None
    /\ last_sleep = None
    /\ joined = FALSE
    /\ NoHist
    /\ NoAll
    /\ has_config_manager \in BOOLEAN
    /\ \E n \in 0..MaxConfigs : configs \in [1..n -> ConfigRecords]
    /\ service_groups = <<>>
    /\ o_initialized = FALSE
    /\ o_running = FALSE
    /\ o_op = "none"
    /\ o_result = "none"
    /\ o_failed = 0
    /\ o_scope = "none"
    /\ NoNew

NextOrch ==
    \/ \E fail \in 0..MaxConfigs :
          initialize_services(fail) /\ called_directly
    \/ \E fail \in 0..MaxConfigs : start_services(fail) /\ called_directly
    \/ \E hung \in SUBSET (1..Len(service_groups)) :
          stop_services(hung) /\ called_directly
    \/ \E i \in 1..Len(service_groups) : group_thread_exit(i)
    \/ \E i \in 1..Len(service_groups) : orphan_thread_exit(i)
    \/ \E fail \in 0..MaxConfigs : enter_initialize_services(fail)
    \/ \E fail \in 0..MaxConfigs : enter_start_services(fail)
    \/ \E hung \in SUBSET (1..Len(service_groups)) : exit_stop_services(hung)

SpecOrch == InitOrch /\ [][NextOrch]_vars

\* -------------------------------------------------------- OutputRouter

\* a gate that is not part of the run
NoGate ==
    /\ now = 0 /\ start = 0 /\ end = 0
    /\ run_in_thread = FALSE /\ new_thread = FALSE
    /\ max_job = None /\ done = 0
    /\ stop_event = "none" /\ thread = "none"
    /\ pc = "idle" /\ wake = 0 /\ invocations = 0
    /\ call_now = None /\ last_sleep = None /\ joined = FALSE

\* sink names; a name is a sequence of words
DestinationNames ==
    {<<"db", "primary">>, <<"database", "main">>, <<"redis", "cache">>,
     <<"redis", "db">>, <<"file", "out">>, <<"unknown", "sink">>}

\* Python's  word in output
contains(output, word) == \E i \in 1..Len(output) : output[i] = word

\* route, lines 44-53: the DataOutput of one destination, "none" for the
\* output_type = None of an unrecognized one
output_type(output) ==
    IF contains(output, "database") \/ contains(output, "db")
    THEN "database"
    ELSE IF contains(output, "redis") THEN "redis"
    ELSE IF contains(output, "file") THEN "file"
    ELSE "none"

\* whether output_model.save(message, time_series) of line 56 raises for
\* destination i.  FileManager.save is declared with (message, orm,
\* data_model), so the two-argument call raises TypeError; the save of
\* DatabaseManager and RedisManager raises for the destinations in fails
\* (SCHEMA_MAP lookup, RedisWrapper.save_data, a lost connection)
save_raises(type, i, fails) == type = "file" \/ i \in fails

RECURSIVE route_from(_, _, _)
\* route, lines 43-59, from destination i on: the output types save() is
\* called on, the number of "Log only" entries and the destination whose
\* save() raised (0 when none); nothing in route catches that exception
route_from(dest, i, fails) ==
    IF i > Len(dest) THEN [saves |-> <<>>, logged |-> 0, failed |-> 0]
    ELSE LET type == output_type(dest[i])
             rest == route_from(dest, i + 1, fails)
         IN  IF type = "none"
             THEN [rest EXCEPT !.logged = @ + 1]
             ELSE IF save_raises(type, i, fails)
             THEN [saves |-> <<type>>, logged |-> 0, failed |-> i]
             ELSE [rest EXCEPT !.saves = <<type>> \o @]

\* OutputRouter.route(message, time_series)
route(fails) ==
    /\ fails \subseteq 1..Len(destination)
    /\ LET r == route_from(destination, 1, fails)
       IN  /\ saves' = r.saves
           /\ r_logged' = r.logged
           /\ r_failed' = r.failed
           /\ r_result' = IF r.failed = 0 THEN "ok" ELSE "raised"
    /\ UNCHANGED <<now, gateVars, histVars, allVars, orchVars, moreVars, destination,
                   webVars, extVars>>

\* the singleton router (lines 14-33) and a series with its destinations
InitRoute ==
    /\ NoGate
    /\ NoHist
    /\ NoAll
    /\ NoOrch
    /\ \E n \in 0..MaxDest : destination \in [1..n -> DestinationNames]
    /\ saves = <<>>
    /\ r_logged = 0
    /\ r_failed = 0
    /\ r_result = "none"
    /\ NoWeb
    /\ NoExt
    /\ NoMore

NextRoute == \E fails \in SUBSET (1..MaxDest) : route(fails)

SpecRoute == InitRoute /\ [][NextRoute]_vars

\* -------------------------------------------------- parse_web_response

StatusCodes == {200, 404, 500}
JsonTokens == {"[", "]", ",", "1", "null"}

\* Python values, by type and length
PyNone == [kind |-> "NoneType", len |-> 0]
PyInt == [kind |-> "int", len |-> 0]
PyList(n) == [kind |-> "list", len |-> n]
\* a non-empty str
PyStr == [kind |-> "str", len |-> 1]

RECURSIVE json_elements(_)
\* the number of elements of a comma separated list of scalars, None when
\* the tokens are not such a list
json_elements(toks) ==
    IF toks = <<>> THEN None
    ELSE IF toks[1] \notin {"1", "null"} THEN None
    ELSE IF Len(toks) = 1 THEN 1
    ELSE IF toks[2] # "," THEN None
    ELSE LET rest == json_elements(SubSeq(toks, 3, Len(toks)))
         IN  IF rest = None THEN None ELSE rest + 1

\* response.json() (line 37): the value parsed from the body, or that it
\* raises ValueError.  The JSON text null parses to Python None
json(body) ==
    IF body = <<"null">> THEN [raises |-> FALSE, value |-> PyNone]
    ELSE IF body = <<"1">> THEN [raises |-> FALSE, value |-> PyInt]
    ELSE IF Len(body) >= 2 /\ body[1] = "[" /\ body[Len(body)] = "]"
    THEN IF Len(body) = 2 THEN [raises |-> FALSE, value |-> PyList(0)]
         ELSE LET n == json_elements(SubSeq(body, 2, Len(body) - 1))
              IN  IF n = None THEN [raises |-> TRUE, value |-> PyNone]
                  ELSE [raises |-> FALSE, value |-> PyList(n)]
    ELSE [raises |-> TRUE, value |-> PyNone]

\* parse_web_response(response): the tuple (data, error_message)
parse_web_response(status, body) ==
    IF status = 200
    THEN IF json(body).raises THEN <<PyNone, PyStr>>
         ELSE <<json(body).value, PyNone>>
    ELSE <<PyNone, PyStr>>

\* Python truth of a value
truthy(v) ==
    IF v.kind = "NoneType" THEN FALSE
    ELSE IF v.kind \in {"list", "str"} THEN v.len > 0
    ELSE TRUE

\* data, error = parse_web_response(resp)
parse_response ==
    /\ parsed = <<>>
    /\ parsed' = parse_web_response(resp_status, resp_body)
    /\ UNCHANGED <<now, gateVars, histVars, allVars, orchVars, moreVars, routeVars,
                   resp_status, resp_body, consumed, extVars>>

\* historical/onyx.py, lines 83-89: the caller logs the error, or iterates
\* over data; iterating over a value that is no list raises TypeError,
\* which the except of the series logs
handle_parsed ==
    /\ parsed # <<>>
    /\ consumed = "none"
    /\ consumed' = IF truthy(parsed[2]) THEN "error logged"
                   ELSE IF parsed[1].kind = "list" THEN "records handled"
                   ELSE "TypeError logged"
    /\ UNCHANGED <<now, gateVars, histVars, allVars, orchVars, moreVars, routeVars,
                   resp_status, resp_body, parsed, extVars>>

\* a response of the vendor: any status with any short body
InitWeb ==
    /\ NoGate
    /\ NoHist
    /\ NoAll
    /\ NoOrch
    /\ NoRoute
    /\ resp_status \in StatusCodes
    /\ \E n \in 0..MaxBody : resp_body \in [1..n -> JsonTokens]
    /\ parsed = <<>>
    /\ consumed = "none"
    /\ NoExt
    /\ NoMore

NextWeb == parse_response \/ handle_parsed

SpecWeb == InitWeb /\ [][NextWeb]_vars

\* ------------------------------------ extractor instances and their gates

ExtractorClasses ==
    {"DatabentoRealtimeExtractor", "OnyxRealtimeExtractor",
     "BBGHistoricalExtractor"}
RealtimeExtractors ==
    {"DatabentoRealtimeExtractor", "OnyxRealtimeExtractor"}

\* a series of a Databento extractor: its venue maps to the data set
\* GLBX.MDP3 and the vendor's symbology knows it ("GLBX.found") or does not
\* ("GLBX.missing"), or its venue maps to another data set ("other")
SeriesKinds == {"GLBX.found", "GLBX.missing", "other"}

gate_inline(x) == FALSE

\* the run_in_thread argument of the module level RuntimeControl of an
\* extractor class: realtime/databento.py lines 17-20 pass True,
\* realtime/onyx.py lines 17-19 and historical/bbg.py lines 22-25 leave
\* the default
gate_run_in_thread(x) == x = "DatabentoRealtimeExtractor"

\* whether db_symbol_resolver.resolve raises for the series of an
\* extractor: resolve_cme is called when a series is in GLBX.MDP3 and
\* raises ValueError when a lookup does not answer "OK" (lines 51-52,
\* 67-68) and KeyError when one series has no instrument id or raw symbol
\* (lines 78-83)
resolve_raises(series, api_ok) ==
    /\ \E i \in 1..Len(series) : series[i] # "other"
    /\ \/ ~api_ok
       \/ \E i \in 1..Len(series) : series[i] = "GLBX.missing"

\* DatabentoRealtimeExtractor.__init__, line 31: resolve_raw_symbols.  For
\* another data set resolve logs "resolver not implemented" and returns {}
resolve_raw_symbols(api_ok) ==
    /\ extractor = "DatabentoRealtimeExtractor"
    /\ e_pc = "new"
    /\ IF resolve_raises(e_series, api_ok)
       THEN /\ e_pc' = "raised"
            /\ UNCHANGED <<e_symbol, e_log>>
       ELSE /\ e_pc' = "constructed"
            /\ e_symbol' = [i \in 1..Len(e_series) |->
                               e_symbol[i] \/ e_series[i] = "GLBX.found"]
            /\ e_log' = {i \in 1..Len(e_series) : e_series[i] = "other"}
    /\ UNCHANGED <<now, gateVars, histVars, allVars, orchVars, moreVars, routeVars,
                   webVars, extractor, e_series, e_idx, e_subscribed,
                   e_routed>>

\* the owner of a realtime extractor calls its gated start_extract
start_extract_call ==
    /\ extractor \in RealtimeExtractors
    /\ e_pc = "constructed"
    /\ pc = "idle"
    /\ Call

\* DatabentoRealtimeExtractor.start_extract (lines 72-85), called by the
\* wrapper: connect, subscribe, start.  subscribe (lines 51-64) passes
\* [ts.symbol for ts in all_ts] of every data set and schema, the series
\* without a symbol included.  When connect fails the except of
\* start_extract logs and the routine returns
Databento_start_extract(connect_ok) ==
    /\ extractor = "DatabentoRealtimeExtractor"
    /\ pc = "in_func"
    /\ e_pc = "constructed"
    /\ IF connect_ok
       THEN /\ e_subscribed' = 1..Len(e_series)
            /\ e_pc' = "streaming"
       ELSE /\ e_pc' = "failed"
            /\ UNCHANGED e_subscribed
    /\ UNCHANGED <<now, gateVars, histVars, allVars, orchVars, moreVars, routeVars,
                   webVars, extractor, e_series, e_symbol, e_idx, e_routed,
                   e_log>>

\* start_extract returns to the wrapper
Databento_start_extract_return ==
    /\ e_pc \in {"streaming", "failed"}
    /\ FuncReturn

\* handle_mbp1 (lines 134-165) for a record of the raw symbol of series i:
\* raw_sym_to_ts is keyed by time_series.symbol, so a record finds its
\* series only when that series has its symbol
handle_mbp1(i) ==
    /\ extractor = "DatabentoRealtimeExtractor"
    /\ e_pc = "streaming"
    /\ i \in e_subscribed
    /\ e_symbol[i]
    /\ e_routed' = e_routed \cup {i}
    /\ UNCHANGED <<now, gateVars, histVars, allVars, orchVars, moreVars, routeVars,
                   webVars, extractor, e_series, e_symbol, e_pc, e_idx,
                   e_subscribed, e_log>>

\* OnyxRealtimeExtractor.start_extract is entered from the inline loop
Onyx_start_extract_enter ==
    /\ extractor = "OnyxRealtimeExtractor"
    /\ InvokeWorkBody
    /\ e_idx' = IF pc' = "in_work" THEN 1 ELSE 0
    /\ UNCHANGED <<histVars, allVars, orchVars, moreVars, routeVars, webVars,
                   extractor, e_series, e_symbol, e_pc, e_subscribed,
                   e_routed, e_log>>

\* OnyxRealtimeExtractor.on_message, lines 81-82: the series a record of
\* symbol m belongs to, 0 when raw_sym_to_ts[symbol] raises KeyError.
\* m in 1..Len(symbols) is the symbol of series m, a larger m a symbol of
\* no series
raw_sym_to_ts(symbols, m) ==
    IF m \in 1..Len(symbols) /\ symbols[m] THEN m ELSE 0

\* OnyxRealtimeExtractor.start_extract, lines 62-75: one series of the
\* loop.  Every series is polled by its root_id, with or without a symbol;
\* outcome is "raise", "error", "empty" or "data" with one record of
\* symbol m
Onyx_poll_series(outcome, m) ==
    /\ extractor = "OnyxRealtimeExtractor"
    /\ pc = "in_work"
    /\ e_idx \in 1..Len(e_series)
    /\ e_idx' = e_idx + 1
    /\ e_subscribed' = e_subscribed \cup {e_idx}
    /\ IF outcome = "empty"
       THEN UNCHANGED <<e_routed, e_log>>
       ELSE IF outcome = "data" /\ raw_sym_to_ts(e_symbol, m) # 0
       THEN /\ e_routed' = e_routed \cup {raw_sym_to_ts(e_symbol, m)}
            /\ UNCHANGED e_log
       ELSE /\ e_log' = e_log \cup {e_idx}
            /\ UNCHANGED e_routed
    /\ UNCHANGED <<now, gateVars, histVars, allVars, orchVars, moreVars, routeVars,
                   webVars, extractor, e_series, e_symbol, e_pc>>

\* start_extract returns None to the wrapper: nothing is added to done
Onyx_start_extract_return ==
    /\ extractor = "OnyxRealtimeExtractor"
    /\ e_idx = Len(e_series) + 1
    /\ AfterWorkBody(0)
    /\ e_idx' = 0
    /\ UNCHANGED <<histVars, allVars, orchVars, moreVars, routeVars, webVars,
                   extractor, e_series, e_symbol, e_pc, e_subscribed,
                   e_routed, e_log>>

\* BBGHistoricalExtractor.start_extract (lines 48-66) is not decorated; it
\* never reads time_series.symbol.  It raises (asset type not
\* implemented, bbg_symbol_resolver or route raising) after k series were
\* handed to on_message, or hands over every series; on_message (lines
\* 72-78) calls output_router.route for the series
BBG_start_extract(k, raises) ==
    /\ extractor = "BBGHistoricalExtractor"
    /\ e_pc = "constructed"
    /\ k \in 0..Len(e_series)
    /\ ~raises => k = Len(e_series)
    /\ e_routed' = 1..k
    /\ e_pc' = IF raises THEN "raised" ELSE "done"
    /\ UNCHANGED <<now, gateVars, histVars, allVars, orchVars, moreVars, routeVars,
                   webVars, extractor, e_series, e_symbol, e_idx,
                   e_subscribed, e_log>>

\* an extractor of one of the classes over its series.  For the Databento
\* extractor the instance is about to resolve its symbols; for the other
\* two the constructor has run and any series may have its symbol
InitExt ==
    /\ now = 0
    /\ start \in Time
    /\ end \in Time
    /\ extractor \in ExtractorClasses
    /\ run_in_thread = gate_run_in_thread(extractor)
    /\ new_thread = FALSE
    /\ \E n \in 0..MaxSeries :
          /\ e_series \in [1..n -> SeriesKinds]
          /\ e_symbol \in [1..n -> BOOLEAN]
    /\ IF extractor = "DatabentoRealtimeExtractor"
       THEN \A i \in 1..Len(e_series) : ~e_symbol[i]
       ELSE \A i \in 1..Len(e_series) : e_series[i] = "other"
    /\ max_job = IF extractor = "BBGHistoricalExtractor"
                 THEN Len(e_series) ELSE None
    /\ done = 0
    /\ stop_event = IF run_in_thread THEN "clear" ELSE "none"
    /\ thread = "none"
    /\ pc = "idle"
    /\ wake = 0
    /\ invocations = 0
    /\ call_now = None
    /\ last_sleep = None
    /\ joined = FALSE
    /\ NoHist
    /\ NoAll
    /\ NoOrch
    /\ NoRoute
    /\ NoWeb
    /\ e_pc = IF extractor = "DatabentoRealtimeExtractor"
              THEN "new" ELSE "constructed"
    /\ e_idx = 0
    /\ e_subscribed = {}
    /\ e_routed = {}
    /\ e_log = {}
    /\ NoMore

NextExt ==
    \/ Tick
    \/ \E api_ok \in BOOLEAN : resolve_raw_symbols(api_ok)
    \/ start_extract_call
    \/ WakeStart
    \/ CallFuncDirect
    \/ \E connect_ok \in BOOLEAN : Databento_start_extract(connect_ok)
    \/ Databento_start_extract_return
    \/ Poll
    \/ WakePoll
    \/ \E i \in 1..MaxSeries : handle_mbp1(i)
    \/ Onyx_start_extract_enter
    \/ \E o \in {"raise", "error", "empty", "data"}, m \in 1..(MaxSeries + 1) :
          Onyx_poll_series(o, m)
    \/ Onyx_start_extract_return
    \/ WakeLoop
    \/ \E k \in 0..MaxSeries, raises \in BOOLEAN : BBG_start_extract(k, raises)

SpecExt == InitExt /\ [][NextExt]_vars

\* ------------------------------------------- the OutputRouter singleton

\* everything modelled above this line
oldVars == <<now, gateVars, histVars, allVars, orchVars, routeVars, webVars,
             extVars>>
NoOld == NoGate /\ NoHist /\ NoAll /\ NoOrch /\ NoRoute /\ NoWeb /\ NoExt

\* what the singleton leaves alone
restSingle == <<oldVars, rangeVars, msgVars, sinkVars, envVars>>

Threads == 1..MaxThreads

class_visible_early == TRUE

\* router.py, line 62: output_router = OutputRouter() is a statement of the
\* module, so the class and the instance become visible to the threads
\* other than the importing one when the construction has returned (the
\* import lock of the module keeps them waiting until then)
class_visible == m_imported

\* whether thread t may execute code of the module
may_run(t) == m_importer = t \/ class_visible

\* a first thread starts to import the module and reaches line 62
import_router(t) ==
    /\ m_importer = 0
    /\ m_importer' = t
    /\ t_pc' = [t_pc EXCEPT ![t] = "new_test"]
    /\ UNCHANGED <<restSingle, cls_instance, cls_initialized, instances,
                   sink_sets, m_imported, t_self>>

\* a thread calls OutputRouter()
construct(t) ==
    /\ m_importer # 0
    /\ may_run(t)
    /\ t_pc[t] \in {"idle", "have", "routed"}
    /\ t_pc' = [t_pc EXCEPT ![t] = "new_test"]
    /\ t_self' = [t_self EXCEPT ![t] = 0]
    /\ UNCHANGED <<restSingle, cls_instance, cls_initialized, instances,
                   sink_sets, m_importer, m_imported>>

\* __new__, line 19: if cls._instance is None
new_test(t) ==
    /\ may_run(t)
    /\ t_pc[t] = "new_test"
    /\ t_pc' = [t_pc EXCEPT ![t] = IF cls_instance = 0 THEN "new_create"
                                   ELSE "new_return"]
    /\ UNCHANGED <<restSingle, cls_instance, cls_initialized, instances,
                   sink_sets, m_importer, m_imported, t_self>>

\* __new__, line 20: cls._instance = super().__new__(cls)
new_create(t) ==
    /\ may_run(t)
    /\ t_pc[t] = "new_create"
    /\ instances' = Append(instances, FALSE)
    /\ cls_instance' = Len(instances) + 1
    /\ t_pc' = [t_pc EXCEPT ![t] = "new_return"]
    /\ UNCHANGED <<restSingle, cls_initialized, sink_sets, m_importer,
                   m_imported, t_self>>

\* __new__, line 21: return cls._instance; __init__ is called on it
new_return(t) ==
    /\ may_run(t)
    /\ t_pc[t] = "new_return"
    /\ t_self' = [t_self EXCEPT ![t] = cls_instance]
    /\ t_pc' = [t_pc EXCEPT ![t] = "init_test"]
    /\ UNCHANGED <<restSingle, cls_instance, cls_initialized, instances,
                   sink_sets, m_importer, m_imported>>

\* the constructor call returns its instance; for the importing thread
\* line 62 binds output_router and the import completes
constructed(t) ==
    /\ t_pc' = [t_pc EXCEPT ![t] = "have"]
    /\ m_imported' = (m_imported \/ m_importer = t)

\* __init__, lines 24-25: if not OutputRouter._initialized, set it
init_test(t) ==
    /\ may_run(t)
    /\ t_pc[t] = "init_test"
    /\ IF cls_initialized
       THEN /\ constructed(t)
            /\ UNCHANGED cls_initialized
       ELSE /\ cls_initialized' = TRUE
            /\ t_pc' = [t_pc EXCEPT ![t] = "init_managers"]
            /\ UNCHANGED m_imported
    /\ UNCHANGED <<restSingle, cls_instance, instances, sink_sets, m_importer,
                   t_self>>

\* __init__, lines 26-28: the three sink managers are built; ok is whether
\* every constructor returns (DatabaseManager raises on an unknown orm,
\* RedisManager when a server cannot be reached).  An exception leaves the
\* constructor and, at line 62, fails the import
init_managers(t, ok) ==
    /\ may_run(t)
    /\ t_pc[t] = "init_managers"
    /\ IF ok
       THEN /\ sink_sets' = sink_sets + 1
            /\ t_pc' = [t_pc EXCEPT ![t] = "init_outputs"]
       ELSE /\ t_pc' = [t_pc EXCEPT ![t] = "raised"]
            /\ UNCHANGED sink_sets
    /\ UNCHANGED <<restSingle, cls_instance, cls_initialized, instances,
                   m_importer, m_imported, t_self>>

\* __init__, lines 29-33: self.outputs = {...}
init_outputs(t) ==
    /\ may_run(t)
    /\ t_pc[t] = "init_outputs"
    /\ instances' = [instances EXCEPT ![t_self[t]] = TRUE]
    /\ constructed(t)
    /\ UNCHANGED <<restSingle, cls_instance, cls_initialized, sink_sets,
                   m_importer, t_self>>

\* a thread takes the module's output_router, as the extractors do
use_output_router(t) ==
    /\ m_imported
    /\ t_pc[t] = "idle"
    /\ t_self' = [t_self EXCEPT ![t] = cls_instance]
    /\ t_pc' = [t_pc EXCEPT ![t] = "have"]
    /\ UNCHANGED <<restSingle, cls_instance, cls_initialized, instances,
                   sink_sets, m_importer, m_imported>>

\* route, line 55: self.outputs.get(...) on the router the thread holds;
\* an instance without the attribute raises AttributeError
route_call(t) ==
    /\ may_run(t)
    /\ t_pc[t] = "have"
    /\ t_pc' = [t_pc EXCEPT ![t] = IF instances[t_self[t]] THEN "routed"
                                   ELSE "raised"]
    /\ UNCHANGED <<restSingle, cls_instance, cls_initialized, instances,
                   sink_sets, m_importer, m_imported, t_self>>

\* a process in which outputs/router.py has not been imported yet
InitSingle ==
    /\ NoOld
    /\ cls_instance = 0
    /\ cls_initialized = FALSE
    /\ instances = <<>>
    /\ sink_sets = 0
    /\ m_importer = 0
    /\ m_imported = FALSE
    /\ t_pc = [t \in Threads |-> "idle"]
    /\ t_self = [t \in Threads |-> 0]
    /\ NoRange
    /\ NoMsg
    /\ NoSink
    /\ NoEnv

NextSingle ==
    \E t \in Threads :
        \/ import_router(t)
        \/ construct(t)
        \/ new_test(t)
        \/ new_create(t)
        \/ new_return(t)
        \/ init_test(t)
        \/ \E ok \in BOOLEAN : init_managers(t, ok)
        \/ init_outputs(t)
        \/ use_output_router(t)
        \/ route_call(t)

SpecSingle == InitSingle /\ [][NextSingle]_vars

\* --------------------------------------- the range of a historical run

\* what the range computation leaves alone
restRange == <<oldVars, singleVars, msgVars, sinkVars, envVars>>

\* days are numbered; day d is a business day unless it is a Saturday
\* (d % 7 = 5) or a Sunday (d % 7 = 6)
is_business_day(d) == d % 7 < 5

\* BDate("T-1").date: the last business day before day d
prior_business_day(d) ==
    CHOOSE b \in (d - 3)..(d - 1) :
        /\ is_business_day(b)
        /\ \A c \in (b + 1)..(d - 1) : ~is_business_day(c)

\* historical_service.main, lines 141-142
main_range(s, e, t) ==
    <<IF s # None THEN s ELSE prior_business_day(t),
      IF e # None THEN e ELSE prior_business_day(t)>>

\* BBGHistoricalExtractor.start_extract, lines 50-51
BBG_range(s, e, t) ==
    <<IF s # None THEN s ELSE prior_business_day(t),
      IF e # None THEN e ELSE prior_business_day(t)>>

\* OnyxHistoricalExtractor.start_extract, lines 61-62: the condition of the
\* second line reads config["start"]
Onyx_range(s, e, t) ==
    <<IF s # None THEN s ELSE prior_business_day(t),
      IF s # None THEN e ELSE prior_business_day(t)>>

\* the range one of the three places computes
request_range(site, s, e, t) ==
    IF site = "main" THEN main_range(s, e, t)
    ELSE IF site = "bbg" THEN BBG_range(s, e, t)
    ELSE Onyx_range(s, e, t)

\* the defaults are applied and the range is used for the requests
compute_range ==
    /\ range_pc = "new"
    /\ req_start' = request_range(range_site, cfg_start, cfg_end, today)[1]
    /\ req_end' = request_range(range_site, cfg_start, cfg_end, today)[2]
    /\ range_pc' = "done"
    /\ UNCHANGED <<restRange, range_site, cfg_start, cfg_end, today>>

\* a new run with its own arguments on a later day
next_run(s, e) ==
    /\ range_pc = "done"
    /\ today < 7 + 6
    /\ today' = today + 1
    /\ cfg_start' = s
    /\ cfg_end' = e
    /\ req_start' = None
    /\ req_end' = None
    /\ range_pc' = "new"
    /\ UNCHANGED <<restRange, range_site>>

\* a run on any day of a week, with or without --start-range / --end-range
InitRange ==
    /\ NoOld
    /\ NoSingle
    /\ range_site \in {"main", "bbg", "onyx"}
    /\ cfg_start \in {None} \cup 0..MaxDate
    /\ cfg_end \in {None} \cup 0..MaxDate
    /\ today \in 7..(7 + 6)
    /\ req_start = None
    /\ req_end = None
    /\ range_pc = "new"
    /\ NoMsg
    /\ NoSink
    /\ NoEnv

NextRange ==
    \/ compute_range
    \/ \E s, e \in {None} \cup 0..MaxDate : next_run(s, e)

SpecRange == InitRange /\ [][NextRange]_vars

\* --------------------------- DatabentoRealtimeExtractor.on_message

\* what on_message leaves alone
restMsg == <<oldVars, singleVars, rangeVars, sinkVars, envVars>>

RecordKinds == {"SystemMsg", "SymbolMappingMsg", "MBP1Msg", "other"}
RawSymbols == 1..MaxSym
InstrumentIds == 1..MaxIid

\* __init__, line 32: raw_sym_to_ts = {s.symbol: s for s in time_series},
\* looked up at line 137.  A later series replaces an earlier one of the
\* same symbol; 0 when the lookup raises KeyError
Databento_raw_sym_to_ts(symbols, sym) ==
    LET owners == {i \in 1..Len(symbols) : symbols[i] = sym}
    IN  IF owners = {} THEN 0
        ELSE CHOOSE i \in owners : \A j \in owners : j <= i

handle_mbp1_unguarded(c, symbols, iid, route_ok) ==
    IF c[iid] = 0 \/ Databento_raw_sym_to_ts(symbols, c[iid]) = 0
    THEN [routed |-> <<>>, logged |-> FALSE, escaped |-> TRUE]
    ELSE [routed |-> <<Databento_raw_sym_to_ts(symbols, c[iid])>>,
          logged |-> FALSE, escaped |-> ~route_ok]

\* handle_mbp1, lines 134-165: the two lookups, the call of route and the
\* except that logs whatever was raised (a KeyError of a lookup, an
\* exception of route when route_ok is false)
handle_mbp1_outcome(c, symbols, iid, route_ok) ==
    IF c[iid] = 0 \/ Databento_raw_sym_to_ts(symbols, c[iid]) = 0
    THEN [routed |-> <<>>, logged |-> TRUE, escaped |-> FALSE]
    ELSE [routed |-> <<Databento_raw_sym_to_ts(symbols, c[iid])>>,
          logged |-> ~route_ok, escaped |-> FALSE]

\* handle_symbol_mapping, lines 167-168
handle_symbol_mapping(c, iid, sym) == [c EXCEPT ![iid] = sym]

\* on_message, lines 118-126, for one record of the live client
on_message(kind, iid, sym, route_ok) ==
    /\ m_last' = [kind |-> kind,
                  iid |-> IF kind \in {"SymbolMappingMsg", "MBP1Msg"}
                          THEN iid ELSE 0,
                  sym |-> IF kind = "SymbolMappingMsg" THEN sym ELSE 0]
    /\ cache' = IF kind = "SymbolMappingMsg"
                THEN handle_symbol_mapping(cache, iid, sym) ELSE cache
    /\ IF kind = "MBP1Msg"
       THEN LET r == handle_mbp1_outcome(cache, m_symbol, iid, route_ok)
            IN  /\ m_routed' = r.routed
                /\ m_logged' = r.logged
                /\ m_escaped' = r.escaped
       ELSE /\ m_routed' = <<>>
            /\ m_logged' = FALSE
            /\ m_escaped' = FALSE
    /\ UNCHANGED <<restMsg, m_symbol>>

\* the extractor after __init__ (lines 26-33): every series has the raw
\* symbol resolved for it or none, the cache is empty
InitMsg ==
    /\ NoOld
    /\ NoSingle
    /\ NoRange
    /\ \E n \in 0..MaxOwned : m_symbol \in [1..n -> {0} \cup RawSymbols]
    /\ cache = [i \in InstrumentIds |-> 0]
    /\ m_last = [kind |-> "none", iid |-> 0, sym |-> 0]
    /\ m_routed = <<>>
    /\ m_logged = FALSE
    /\ m_escaped = FALSE
    /\ NoSink
    /\ NoEnv

NextMsg ==
    \E kind \in RecordKinds, iid \in InstrumentIds, sym \in RawSymbols,
       route_ok \in BOOLEAN : on_message(kind, iid, sym, route_ok)

SpecMsg == InitMsg /\ [][NextMsg]_vars

\* ------------------------------------ DatabaseManager and RedisManager

\* what the sink managers leave alone
restSink == <<oldVars, singleVars, rangeVars, msgVars, envVars>>

\* the ids of settings.all_databases() and settings.all_redis()
DbNames == {<<"db", "primary">>, <<"db", "replica">>}
RedisNames == {<<"redis", "cache">>, <<"redis", "live">>}
SinkNames ==
    DbNames \cup RedisNames \cup {<<"file", "out">>, <<"unknown", "sink">>}

\* additional_params.get("redis"): no entry, {}, a config of type stream,
\* of type kv with a field of the data object, of type kv with a field the
\* data object does not have, of type kv without field, of another type,
\* without type
StoreConfigs ==
    {"missing", "empty", "stream", "kv field", "kv unknown field",
     "kv no field", "other type", "no type"}

save_data_lenient(store) ==
    IF store \in {"missing", "empty"}
    THEN [op |-> "none", error |-> "KeyError"]
    ELSE IF store = "stream" THEN [op |-> "xadd", error |-> "none"]
    ELSE IF store = "kv no field" THEN [op |-> "none", error |-> "KeyError"]
    ELSE IF store = "kv unknown field"
    THEN [op |-> "none", error |-> "KeyError"]
    ELSE [op |-> "set", error |-> "none"]

\* RedisWrapper.save_data, lines 17-39: the command issued and the
\* exception raised
save_data_outcome(store) ==
    IF store \in {"missing", "empty"}
    THEN [op |-> "none", error |-> "KeyError"]
    ELSE IF store = "stream" THEN [op |-> "xadd", error |-> "none"]
    ELSE IF store = "kv field" THEN [op |-> "set", error |-> "none"]
    ELSE IF store \in {"kv no field", "kv unknown field"}
    THEN [op |-> "none", error |-> "KeyError"]
    ELSE [op |-> "none", error |-> "ValueError"]

\* the effect of one call on the tally st of a route or save call
nothing_done ==
    [writes |-> [n \in SinkNames |-> 0], ops |-> <<>>, error |-> "none"]

RedisWrapper_save_data(st, name, store) ==
    IF save_data_outcome(store).error # "none"
    THEN [st EXCEPT !.error = save_data_outcome(store).error]
    ELSE [st EXCEPT !.writes[name] = @ + 1,
                    !.ops = Append(@, <<name, save_data_outcome(store).op>>)]

RECURSIVE RedisManager_loop(_, _, _, _, _)
\* RedisManager.save, lines 66-71: the loop over time_series.destination
RedisManager_loop(st, dest, j, active, store) ==
    IF j > Len(dest) \/ st.error # "none" THEN st
    ELSE RedisManager_loop(
            IF dest[j] \in active
            THEN RedisWrapper_save_data(st, dest[j], store) ELSE st,
            dest, j + 1, active, store)

\* RedisManager.save, lines 64-71; line 65 raises KeyError for a schema
\* that SCHEMA_MAP does not have
RedisManager_save(st, dest, active, store, schema_ok) ==
    IF ~schema_ok THEN [st EXCEPT !.error = "KeyError"]
    ELSE RedisManager_loop(st, dest, 1, active, store)

RECURSIVE DatabaseManager_loop(_, _, _, _)
\* DatabaseManager.save, lines 33-35; db_ok is whether save_data of the
\* database instances returns
DatabaseManager_loop(st, dest, j, db_ok) ==
    IF j > Len(dest) \/ st.error # "none" THEN st
    ELSE DatabaseManager_loop(
            IF dest[j] \notin DbNames THEN st
            ELSE IF ~db_ok THEN [st EXCEPT !.error = "Exception"]
            ELSE [st EXCEPT !.writes[dest[j]] = @ + 1],
            dest, j + 1, db_ok)

\* DatabaseManager.save, lines 31-35
DatabaseManager_save(st, dest, db_ok, schema_ok) ==
    IF ~schema_ok THEN [st EXCEPT !.error = "KeyError"]
    ELSE DatabaseManager_loop(st, dest, 1, db_ok)

RECURSIVE route_loop(_, _, _, _, _, _, _)
\* OutputRouter.route, lines 43-59, with the save of each manager
route_loop(st, dest, i, active, store, db_ok, schema_ok) ==
    IF i > Len(dest) \/ st.error # "none" THEN st
    ELSE route_loop(
            IF output_type(dest[i]) = "database"
            THEN DatabaseManager_save(st, dest, db_ok, schema_ok)
            ELSE IF output_type(dest[i]) = "redis"
            THEN RedisManager_save(st, dest, active, store, schema_ok)
            ELSE IF output_type(dest[i]) = "file"
            THEN [st EXCEPT !.error = "TypeError"]
            ELSE st,
            dest, i + 1, active, store, db_ok, schema_ok)

\* one call of an entry point, with its outcome
sink_call(name, st) ==
    /\ s_call' = name
    /\ s_writes' = st.writes
    /\ s_ops' = st.ops
    /\ s_error' = st.error
    /\ UNCHANGED <<restSink, s_dest, s_active, s_store, s_schema_ok>>

\* redis_manager.save(message, time_series)
call_RedisManager_save ==
    sink_call("RedisManager.save",
              RedisManager_save(nothing_done, s_dest, s_active, s_store,
                                s_schema_ok))

\* db_manager.save(message, time_series)
call_DatabaseManager_save(db_ok) ==
    sink_call("DatabaseManager.save",
              DatabaseManager_save(nothing_done, s_dest, db_ok, s_schema_ok))

\* output_router.route(message, time_series)
call_route(db_ok) ==
    sink_call("route",
              route_loop(nothing_done, s_dest, 1, s_active, s_store, db_ok,
                         s_schema_ok))

\* a series with its destinations and redis parameters, and the redis
\* servers that answered the ping of init_redis (lines 49-62)
InitSink ==
    /\ NoOld
    /\ NoSingle
    /\ NoRange
    /\ NoMsg
    /\ \E n \in 0..MaxDest : s_dest \in [1..n -> SinkNames]
    /\ s_active \in SUBSET RedisNames
    /\ s_store \in StoreConfigs
    /\ s_schema_ok \in BOOLEAN
    /\ s_call = "none"
    /\ s_writes = [n \in SinkNames |-> 0]
    /\ s_ops = <<>>
    /\ s_error = "none"
    /\ NoEnv

NextSink ==
    \/ call_RedisManager_save
    \/ \E db_ok \in BOOLEAN : call_DatabaseManager_save(db_ok)
    \/ \E db_ok \in BOOLEAN : call_route(db_ok)

SpecSink == InitSink /\ [][NextSink]_vars

\* ----------------------------------------------------------- set_env_vars

\* what set_env_vars leaves alone
restEnv == <<oldVars, singleVars, rangeVars, msgVars, sinkVars>>

EnvNames == {"EXTRACT_START_TIME", "EXTRACT_END_TIME", "TZ"}
EnvValues == 1..MaxValue

\* the items of a dict: pairs of a name and a value or None, no name twice
Arguments ==
    UNION {{a \in [1..n -> [name : EnvNames, value : {None} \cup EnvValues]] :
               \A i, j \in 1..n : i # j => a[i].name # a[j].name} :
           n \in 0..MaxArgs}

RECURSIVE set_env_vars_from(_, _, _)
\* set_env_vars, lines 16-23, from item i on: the environment left behind
\* and whether ValueError was raised
set_env_vars_from(e, arg, i) ==
    IF i > Len(arg) THEN [environ |-> e, raised |-> FALSE]
    ELSE IF e[arg[i].name] # 0 THEN [environ |-> e, raised |-> TRUE]
    ELSE set_env_vars_from(
            IF arg[i].value # None
            THEN [e EXCEPT ![arg[i].name] = arg[i].value] ELSE e,
            arg, i + 1)

\* set_env_vars(argument)
set_env_vars ==
    /\ environ' = set_env_vars_from(environ, argument, 1).environ
    /\ env_result' = IF set_env_vars_from(environ, argument, 1).raised
                     THEN "raised" ELSE "ok"
    /\ UNCHANGED <<restEnv, argument>>

\* the caller goes on to another call with its own argument
next_argument(a) ==
    /\ env_result # "none"
    /\ argument' = a
    /\ env_result' = "none"
    /\ UNCHANGED <<restEnv, environ>>

\* a process environment and the argument of a call
InitEnv ==
    /\ NoOld
    /\ NoSingle
    /\ NoRange
    /\ NoMsg
    /\ NoSink
    /\ environ \in [EnvNames -> {0} \cup EnvValues]
    /\ argument \in Arguments
    /\ env_result = "none"

NextEnv ==
    \/ set_env_vars
    \/ \E a \in Arguments : next_argument(a)

SpecEnv == InitEnv /\ [][NextEnv]_vars

\* ------------------------------------------------------------- claims

\* C1: should_continue() is true exactly when now < end and (the quota is
\* unset or the done-counter is below the quota).
C1_ShouldContinueIsConjunction ==
    should_continue = (now < end /\ (max_job = None \/ done < max_job))

\* C2: in inline mode no invocation of work() begins in a state where
\* now >= end or (a quota is set and done-counter >= quota).
C2_NoWorkPastEndOrQuota ==
    [][(~run_in_thread /\ invocations' = invocations + 1)
         => (now < end /\ (max_job = None \/ done < max_job))]_vars

\* C3: when the gated routine is invoked at now >= end the call returns at
\* once: work is not invoked and no worker is started, with or without quota.
C3_LateCallSkips ==
    (call_now # None /\ call_now >= end)
        => (pc = "returned" /\ invocations = 0)

\* C4: work (inline call, direct call or worker start) is never invoked
\* before the wall clock has reached start.
C4_NoWorkBeforeStart ==
    [][invocations' > invocations => now >= start]_vars

\* C4 witness: a run invoked before start (and before end) has invoked work.
C4_Witness ==
    call_now # None /\ call_now < start /\ call_now < end /\ invocations > 0

\* C5: once should_continue() has returned false it returns false in every
\* later state.
C5_StoppedIsAbsorbing ==
    [][~should_continue => ~should_continue']_vars

\* C7: a detached-thread run that started work returns only after starting
\* work exactly once, setting the cancellation signal and joining the worker.
C7_CancelThenJoin ==
    (run_in_thread /\ pc = "returned" /\ invocations > 0)
        => (invocations = 1 /\ stop_event = "set" /\ joined)

\* C8: after a historical extractor's gated inline run the done-counter
\* equals the number of records normalized and routed.
C8_DoneEqualsRouted ==
    (pc = "returned" /\ invocations > 0) => done = routed

\* C6: AllGate(G1, G2).should_continue() is G1.should_continue() and
\* G2.should_continue(); the gate of make_time_and_job_gate(start, end,
\* max_jobs) wants to stop exactly when the end time is reached or the
\* (positive) job budget is used up.
C6_AllGateIsConjunction ==
    /\ AllGate_should_continue(time_and_job_gates)
          = (should_continue /\ JobCount_should_continue)
    /\ ~AllGate_should_continue(time_and_job_gates)
          = (now >= end
             \/ (jc_max_jobs # None /\ jc_max_jobs > 0
                 /\ jc_done >= jc_max_jobs))

\* C6 witness: the job budget is used up through on_job_finished while the
\* time window is still open.
C6_Witness ==
    /\ ag_pc = "ready" /\ now < end
    /\ jc_max_jobs # None /\ jc_done > 0 /\ jc_done >= jc_max_jobs

\* C9: initialization creates exactly one service group per distinct pair
\* (extractor kind, data source), each holding exactly the (enabled)
\* series of that pair.
C9_GroupsPartitionByKindAndSource ==
    (o_op = "initialize_services" /\ o_result = "ok" /\ o_initialized)
        => /\ \A i, j \in 1..Len(configs) :
                 (configs[i].enabled /\ configs[j].enabled) =>
                    ((\E g \in 1..Len(service_groups) :
                          {i, j} \subseteq service_groups[g].members)
                     <=> (group_key_by_source(configs[i])
                             = group_key_by_source(configs[j])))
           /\ \A g \in 1..Len(service_groups) :
                 \A i \in service_groups[g].members : configs[i].enabled

C11_ScopeExitStopsEveryGroup ==
    o_scope = "left"
        => \A g \in 1..Len(service_groups) : ~service_groups[g].running

\* an enabled configuration whose extractor type is not a key of the
\* orchestrator's extractor registry
unregistered_series ==
    \E i \in 1..Len(configs) :
        configs[i].enabled
           /\ group_key(configs[i])[1] \notin extractor_registry

C18_WorkExceptionEndsRun ==
    [][(pc \in {"raising", "raised"})
          => (pc' \in {"raising", "raised"} /\ invocations' = invocations)]_vars

\* C18 witness: the exception has reached the caller of a run whose gate
\* would still have continued.
C18_Witness ==
    pc = "raised" /\ ~run_in_thread /\ invocations > 0 /\ should_continue

RECURSIVE recognized_types(_, _)
recognized_types(dest, i) ==
    IF i > Len(dest) THEN <<>>
    ELSE IF output_type(dest[i]) = "none" THEN recognized_types(dest, i + 1)
    ELSE <<output_type(dest[i])>> \o recognized_types(dest, i + 1)

\* C13: routing one message calls save() once for each destination that
\* classifies as database, redis or file, in the order of the destination
\* list, and not for an unrecognized destination, which is logged only.
C13_OneSavePerRecognizedDestination ==
    r_result # "none"
        => /\ saves = recognized_types(destination, 1)
           /\ r_logged = Cardinality({i \in 1..Len(destination) :
                                        output_type(destination[i]) = "none"})

\* C14: when save() raises for one destination, route still calls save()
\* for every later recognized destination and does not raise.
C14_SaveFailureDoesNotStopRoute ==
    r_failed # 0
        => /\ r_result = "ok"
           /\ Len(saves) = Len(recognized_types(destination, 1))

\* C19: parse_web_response returns (data, None) exactly when the status is
\* 200 and the body parses as JSON, and (None, message) otherwise; data and
\* error are never both None and never both set.
C19_ExactlyOneOfDataAndError ==
    parsed # <<>>
        => /\ (parsed[1] = PyNone) # (parsed[2] = PyNone)
           /\ (parsed[2] = PyNone)
                 <=> (resp_status = 200 /\ ~json(resp_body).raises)

\* a series whose raw symbol the vendor can resolve
resolvable(i) == e_series[i] = "GLBX.found"

\* C15: symbol resolution failure is per series and not fatal: resolving
\* the symbols of an extractor that owns resolvable and unresolvable
\* series raises nothing, sets the raw symbol on exactly the resolvable
\* series, logs the others, and the subscription covers exactly the
\* resolved series.
C15_ResolutionFailureIsPerSeries ==
    (/\ extractor = "DatabentoRealtimeExtractor" /\ e_pc # "new"
     /\ \E i \in 1..Len(e_series) : resolvable(i)
     /\ \E i \in 1..Len(e_series) : ~resolvable(i))
        => /\ e_pc # "raised"
           /\ \A i \in 1..Len(e_series) :
                 /\ e_symbol[i] <=> resolvable(i)
                 /\ ~resolvable(i) => i \in e_log
           /\ e_pc = "streaming"
                 => e_subscribed = {i \in 1..Len(e_series) : resolvable(i)}

\* C16: whenever an extractor has handed a message to the router for a
\* series, that series has its raw symbol set; no message is routed for a
\* series without one.
C16_RoutedSeriesHaveSymbol ==
    \A i \in e_routed : e_symbol[i]

C21_SingletonUnderConcurrency ==
    /\ Len(instances) <= 1
    /\ sink_sets <= 1
    /\ \A t \in DOMAIN t_pc :
          t_pc[t] \in {"have", "routed"}
             => (t_self[t] = 1 /\ instances[t_self[t]])
    /\ \A t \in DOMAIN t_pc : t_pc[t] = "raised" => ~m_imported

\* C21 witness: one thread has routed through the router it constructed
\* while another thread is inside OutputRouter().
C21_Witness ==
    /\ Len(instances) = 1 /\ sink_sets = 1
    /\ \E t, u \in DOMAIN t_pc :
          /\ t # u /\ t # m_importer
          /\ t_pc[t] = "routed" /\ t_pc[u] = "init_test"

\* C22: the start and the end of a historical request range are defaulted
\* independently: in each of the four combinations of start given or
\* absent and end given or absent, a given bound is used as supplied and
\* an absent bound is replaced by the prior business day.
C22_RangeBoundsDefaultIndependently ==
    range_pc = "done"
        => /\ req_start = IF cfg_start # None THEN cfg_start
                          ELSE prior_business_day(today)
           /\ req_end = IF cfg_end # None THEN cfg_end
                        ELSE prior_business_day(today)

\* C23: the composite gates pass a job-completion notice to every child:
\* after on_job_finished(c) with c > 0 on the composite, every child that
\* tracks a job quota (a RuntimeControl with max_job, a JobCountControl
\* with max_jobs) has its done-counter increased by c.
C23_EveryQuotaChildCounts ==
    /\ (max_job # None /\ max_job > 0) => done = ag_notified
    /\ jc_max # None => jc_done = ag_notified

redis_targets == {j \in 1..Len(s_dest) : s_dest[j] \in s_active}

\* C25: the redis sink chooses its write from additional_params.redis.type:
\* "stream" performs exactly one capped stream append, "kv" exactly one
\* scalar set of the configured field; a missing redis config, a "kv"
\* config without a field or any other type is an error outcome in which
\* nothing is written to redis.
C25_RedisWriteFollowsStoreType ==
    (s_call = "RedisManager.save" /\ s_schema_ok /\ redis_targets # {})
        => /\ s_store = "stream"
                 => /\ s_error = "none"
                    /\ Len(s_ops) = Cardinality(redis_targets)
                    /\ \A k \in 1..Len(s_ops) : s_ops[k][2] = "xadd"
           /\ s_store = "kv field"
                 => /\ s_error = "none"
                    /\ Len(s_ops) = Cardinality(redis_targets)
                    /\ \A k \in 1..Len(s_ops) : s_ops[k][2] = "set"
           /\ s_store \in {"missing", "empty", "kv no field", "other type",
                           "no type"}
                 => (s_error # "none" /\ s_ops = <<>>)
           /\ s_error # "none" => s_ops = <<>>

\* C25 witness: a series with one active redis destination behind a
\* database destination was saved with a kv config.
C25_Witness ==
    /\ s_call = "RedisManager.save" /\ s_schema_ok
    /\ s_store = "kv field" /\ Len(s_dest) > 1
    /\ s_ops = <<<<s_dest[2], "set">>>>

\* C26: one successful route call persists the message exactly once to
\* each sink instance named in the destinations, also when two
\* destinations are of the same sink kind.
C26_OneWritePerNamedInstance ==
    (/\ s_call = "route" /\ s_error = "none"
     /\ \A i, j \in 1..Len(s_dest) : i # j => s_dest[i] # s_dest[j])
        => \A j \in 1..Len(s_dest) :
              s_dest[j] \in DbNames \cup s_active => s_writes[s_dest[j]] = 1

\* C27: if start_services fails while starting a service group, then
\* when the exception reaches the caller every group already started has
\* been stopped (none has its _running flag set with its worker alive) and
\* the orchestrator's _running flag is false.
C27_FailedStartStopsStartedGroups ==
    (o_op = "start_services" /\ o_result = "raised" /\ o_failed # 0)
        => /\ ~o_running
           /\ \A g \in 1..Len(service_groups) :
                 ~(service_groups[g].running
                      /\ service_groups[g].thread = "alive")

\* the worker threads of group g that are alive
live_workers(g) ==
    service_groups[g].orphans
        + (IF service_groups[g].thread = "alive" THEN 1 ELSE 0)

\* C28: whatever the sequence of start() and stop() calls on an
\* initialized service group, at most one worker thread of the group is
\* alive at any time, also when a start() follows a stop() whose join
\* timed out.
C28_AtMostOneWorkerPerGroup ==
    \A g \in 1..Len(service_groups) : live_workers(g) <= 1

\* C29: the inline gate loop never degenerates into a zero-delay spin:
\* whenever the loop goes on to invoke work() again, the sleep performed
\* between the two invocations had a strictly positive duration.
C29_NoZeroDelaySpin ==
    [][(~run_in_thread /\ invocations > 0
          /\ invocations' = invocations + 1)
         => last_sleep > 0]_vars

\* C30: set_env_vars is all-or-nothing: when it raises because one of the
\* names is already set, no environment variable has been added or changed
\* by that call, and an existing variable is never overwritten.
C30_SetEnvVarsAllOrNothing ==
    [][/\ env_result' = "raised" => environ' = environ
       /\ \A n \in DOMAIN environ :
             environ[n] # 0 => environ'[n] = environ[n]]_vars

====
